---- MODULE Spec2Model ----
(***************************************************************************)
(* Model of the impersonation configuration engine:                        *)
(*   - src/src/util/client/request.rs : InnerRequestBuilder / InnerRequest *)
(*   - src/src/tls/extension.rs       : TlsExtension for                   *)
(*                                      SslConnectorBuilder and            *)
(*                                      TlsConnectExtension for            *)
(*                                      ConnectConfiguration               *)
(***************************************************************************)
EXTENDS Integers, Sequences, FiniteSets, TLC

VARIABLES
    rb,             \* InnerRequestBuilder: headers, version, version_pref,
                    \* network_scheme, headers_order
    req,            \* Some(InnerRequest) once body() has built it, else None
    parts,          \* Some(tuple returned by InnerRequest::pieces()), else None
    phase,          \* "building" | "built" | "taken"
    connector,      \* Some(SslConnectorBuilder) while the chain of steps is
                    \* alive, None once a step has returned Err
    tls_result,     \* TlsResult of the last connector step: "Ok" | "Err"
    tls_last,       \* the last connector step: [op, arg]
    tls_calls,      \* the engine calls the last connector step has made
    tls_steps,      \* number of connector steps chained so far
    LOAD_CERTS,     \* the process-wide LazyLock<CertificateResult>
    loads,          \* number of runs of rustls_native_certs::load_native_certs
    caller,         \* per caller of configure_set_verify_cert_store: its locals
    conf,           \* the ConnectConfiguration of one connection attempt
    conf_result,    \* TlsResult of the last per-attempt step
    conf_last,      \* the last per-attempt step: [op, enable, arg]
    conf_calls,     \* the engine calls the last per-attempt step has made
    conf_steps      \* number of per-attempt steps applied so far

requestVars == <<rb, req, parts, phase>>
connectorVars == <<connector, tls_result, tls_last, tls_calls, tls_steps>>
nativeVars == <<LOAD_CERTS, loads, caller>>
connectVars == <<conf, conf_result, conf_last, conf_calls, conf_steps>>
vars == <<requestVars, connectorVars, nativeVars, connectVars>>

\* what the actions of one component leave alone
notRequest == <<connectorVars, nativeVars, connectVars>>
notConnector == <<requestVars, nativeVars, connectVars>>
notNative == <<requestVars, connectorVars, connectVars>>
notConnect == <<requestVars, connectorVars, nativeVars>>

\* Option<T>: None is the empty sequence, Some(x) the one-element sequence
None == <<>>
Some(x) == <<x>>
Unwrap(o) == o[1]
Options(S) == {None} \cup {Some(x) : x \in S}

(***************************************************************************)
(* Bounds of the model.                                                    *)
(***************************************************************************)
MaxHeaders == 3     \* number of distinct header names in a caller header map
MaxOrder == 3       \* length of a canonical header-order list
MaxSteps == 3       \* number of chained connector configuration steps
NCallers == 2       \* concurrent callers of configure_set_verify_cert_store
MaxCerts == 3       \* certificates in the native bundle
MaxConnectSteps == 3    \* per-attempt steps applied to one ConnectConfiguration

(***************************************************************************)
(* Header maps.  An http::HeaderMap is a multimap that iterates its names  *)
(* in insertion order, the values of one name together: a sequence of      *)
(* entries [name, values] with pairwise distinct names.                    *)
(***************************************************************************)
CONTENT_LENGTH == "content-length"

HeaderNames == {"host", "accept", "x-custom", CONTENT_LENGTH}
OrderNames == {"host", "user-agent", "accept", CONTENT_LENGTH}

\* the values a caller may give each header (accept may be repeated)
CallerValues(n) ==
    CASE n = "host" -> {<<"example.com">>}
      [] n = "accept" -> {<<"*/*">>, <<"*/*", "text/html">>}
      [] n = "x-custom" -> {<<"1">>}
      [] n = CONTENT_LENGTH -> {<<"99">>}

RECURSIVE SeqsUpTo(_, _)
SeqsUpTo(S, n) ==
    IF n = 0 THEN {<<>>}
    ELSE LET shorter == SeqsUpTo(S, n - 1)
         IN  shorter \cup {Append(s, x) : s \in shorter, x \in S}

Range(s) == {s[i] : i \in DOMAIN s}

NamesOf(h) == [i \in DOMAIN h |-> h[i].name]

Distinct(s) == \A i, j \in DOMAIN s : s[i] = s[j] => i = j

\* every header map a caller can hand to headers()
HeaderMaps ==
    UNION { { [i \in DOMAIN ns |-> [name |-> ns[i], values |-> vs[i]]] :
                vs \in { f \in [DOMAIN ns -> UNION {CallerValues(n) : n \in HeaderNames}] :
                           \A i \in DOMAIN ns : f[i] \in CallerValues(ns[i]) } } :
            ns \in { s \in SeqsUpTo(HeaderNames, MaxHeaders) : Distinct(s) } }

\* every canonical header-order list a profile can supply (no name twice)
HeaderOrders == { s \in SeqsUpTo(OrderNames, MaxOrder) : Distinct(s) }

contains_key(h, n) == \E i \in DOMAIN h : h[i].name = n

\* HeaderMap::entry(n).or_insert_with(|| v): keeps an existing entry, else
\* appends a new one at the end
entry_or_insert(h, n, v) ==
    IF contains_key(h, n) THEN h ELSE Append(h, [name |-> n, values |-> <<v>>])

\* iteration order of a header map: the (name, value) pairs on the wire
RECURSIVE Flatten(_)
Flatten(h) ==
    IF h = <<>> THEN <<>>
    ELSE [i \in DOMAIN Head(h).values |-> <<Head(h).name, Head(h).values[i]>>]
         \o Flatten(Tail(h))

(***************************************************************************)
(* Bodies.  http_body::Body::size_hint() gives a lower bound and an        *)
(* optional upper bound; SizeHint::exact() is Some(lower) when both agree. *)
(***************************************************************************)
Bodies ==
    { [lower |-> 10, upper |-> Some(10)],    \* 10 bytes, known
      [lower |-> 7, upper |-> Some(7)],      \* 7 bytes, known
      [lower |-> 0, upper |-> Some(10)],     \* at most 10 bytes
      [lower |-> 0, upper |-> None] }        \* streaming, unknown

\* SizeHint::exact
exact(body_) == IF body_.upper = Some(body_.lower) THEN Some(body_.lower) ELSE None

\* HeaderValue::from(u64): the decimal digits of the number
Digit == <<"0", "1", "2", "3", "4", "5", "6", "7", "8", "9">>

\* a conversion that keeps only the last digit
HeaderValueFrom_last_digit(n) == Digit[(n % 10) + 1]

RECURSIVE HeaderValueFrom(_)
HeaderValueFrom(n) ==
    IF n < 10 THEN Digit[n + 1]
    ELSE HeaderValueFrom(n \div 10) \o Digit[(n % 10) + 1]

\* HeaderMap::insert in place of entry().or_insert_with(): overwrites
add_content_length_header_overwrite(body_, h) ==
    IF exact(body_) # None
    THEN LET v == HeaderValueFrom(Unwrap(exact(body_)))
         IN  IF contains_key(h, CONTENT_LENGTH)
             THEN [i \in DOMAIN h |->
                     IF h[i].name = CONTENT_LENGTH
                     THEN [name |-> CONTENT_LENGTH, values |-> <<v>>]
                     ELSE h[i]]
             ELSE Append(h, [name |-> CONTENT_LENGTH, values |-> <<v>>])
    ELSE h

\* fn add_content_length_header(body, headers)
add_content_length_header(body_, h) ==
    IF exact(body_) # None
    THEN entry_or_insert(h, CONTENT_LENGTH, HeaderValueFrom(Unwrap(exact(body_))))
    ELSE h

(***************************************************************************)
(* crate::util::sort_headers(headers, order): the headers named in `order` *)
(* first, in the order of that list, the values of a repeated name kept    *)
(* together; then the remaining headers in their original relative order.  *)
(***************************************************************************)
RECURSIVE Select(_, _, _)
Select(h, n, keep) ==
    IF h = <<>> THEN <<>>
    ELSE IF (Head(h).name = n) = keep
         THEN <<Head(h)>> \o Select(Tail(h), n, keep)
         ELSE Select(Tail(h), n, keep)

RECURSIVE SortInto(_, _, _)
SortInto(order, remaining, sorted) ==
    IF order = <<>> THEN sorted \o remaining
    ELSE SortInto(Tail(order),
                  Select(remaining, Head(order), FALSE),
                  sorted \o Select(remaining, Head(order), TRUE))

sort_headers(h, order) == SortInto(order, h, <<>>)

(***************************************************************************)
(* InnerRequestBuilder.  method() and uri() only forward to the http       *)
(* builder and touch neither the header map nor any field read by body();  *)
(* they are left out.  The typed arguments (Method, Uri, Version) never    *)
(* put the http builder into its error state, so headers_mut() is Some.    *)
(***************************************************************************)
Versions == {"HTTP_11", "HTTP_2"}
HttpVersionPref == {"Http1", "Http2", "All"}
NetworkSchemes == {"default", "proxy"}

\* fn map_version_to_pref
map_version_to_pref(version) ==
    CASE version \in {"HTTP_11", "HTTP_10", "HTTP_09"} -> "Http1"
      [] version = "HTTP_2" -> "Http2"
      [] OTHER -> "Default"      \* HttpVersionPref::default()

\* InnerRequest::builder()
builder ==
    [ headers |-> <<>>,
      version |-> None,
      version_pref |-> None,
      network_scheme |-> "default",
      headers_order |-> None ]

InitRequest ==
    /\ rb = builder
    /\ req = None
    /\ parts = None
    /\ phase = "building"

\* InnerRequestBuilder::version
version(v) ==
    /\ phase = "building"
    /\ rb' = IF v # None
             THEN [rb EXCEPT !.version = v,
                             !.version_pref = Some(map_version_to_pref(Unwrap(v)))]
             ELSE rb
    /\ UNCHANGED <<req, parts, phase, notRequest>>

\* InnerRequestBuilder::headers (swaps the whole map in; called here on the
\* builder's still empty map: a second call would only forget the first)
headers(h) ==
    /\ phase = "building"
    /\ rb.headers = <<>>
    /\ rb' = [rb EXCEPT !.headers = h]
    /\ UNCHANGED <<req, parts, phase, notRequest>>

\* InnerRequestBuilder::headers_order (replaces the order; called here while
\* none is set: a second call would only forget the first)
headers_order(order) ==
    /\ phase = "building"
    /\ rb.headers_order = None
    /\ rb' = [rb EXCEPT !.headers_order = order]
    /\ UNCHANGED <<req, parts, phase, notRequest>>

\* InnerRequestBuilder::network_scheme
network_scheme(s) ==
    /\ phase = "building"
    /\ rb' = [rb EXCEPT !.network_scheme = s]
    /\ UNCHANGED <<req, parts, phase, notRequest>>

\* body() without the call of sort_headers
finalized_headers_unsorted(b, body_) ==
    IF b.headers_order # None
    THEN add_content_length_header(body_, b.headers)
    ELSE b.headers

\* body() that orders the headers first and injects content-length afterwards
finalized_headers_sort_first(b, body_) ==
    IF b.headers_order # None
    THEN add_content_length_header(body_, sort_headers(b.headers, Unwrap(b.headers_order)))
    ELSE b.headers

\* the header map body() leaves in the request
finalized_headers(b, body_) ==
    IF b.headers_order # None
    THEN sort_headers(add_content_length_header(body_, b.headers),
                      Unwrap(b.headers_order))
    ELSE b.headers

\* InnerRequestBuilder::body: consumes the builder (rb keeps what was passed)
body(body_) ==
    /\ phase = "building"
    /\ req' = Some([ request |-> [ version |-> rb.version,
                                   headers |-> finalized_headers(rb, body_),
                                   body |-> body_ ],
                     version_pref |-> rb.version_pref,
                     network_scheme |-> rb.network_scheme ])
    /\ phase' = "built"
    /\ UNCHANGED <<rb, parts, notRequest>>

\* pieces() that assembles the request again from the builder's header map
pieces_rebuilt ==
    /\ phase = "built"
    /\ parts' = Some(<<[Unwrap(req).request EXCEPT !.headers = rb.headers],
                       Unwrap(req).network_scheme, Unwrap(req).version_pref>>)
    /\ phase' = "taken"
    /\ UNCHANGED <<rb, req, notRequest>>

\* InnerRequest::pieces: consumes the request
pieces ==
    /\ phase = "built"
    /\ parts' = Some(<<Unwrap(req).request, Unwrap(req).network_scheme,
                       Unwrap(req).version_pref>>)
    /\ phase' = "taken"
    /\ UNCHANGED <<rb, req, notRequest>>

NextRequest ==
    \/ \E v \in Options(Versions) : version(v)
    \/ \E h \in HeaderMaps : headers(h)
    \/ \E o \in Options(HeaderOrders) : headers_order(o)
    \/ \E s \in NetworkSchemes : network_scheme(s)
    \/ \E b \in Bodies : body(b)
    \/ pieces

(***************************************************************************)
(* TLS Connector Configurator: impl TlsExtension for SslConnectorBuilder.  *)
(* Every step takes the builder by value and returns TlsResult: Ok(self),  *)
(* or Err(ErrorStack) with the builder dropped.  An engine call the step   *)
(* makes is accepted or rejected by the engine; which, is not the step's   *)
(* choice.                                                                 *)
(***************************************************************************)
InnerVersion == {"Tls1_0", "Tls1_1", "Tls1_2", "Tls1_3"}
CertCompressionAlgorithm == {"Brotli", "Zlib"}
X509Stores == {"custom-store"}

\* the byte-string literals of configure_alpn_protos
ALPN_HTTP1 == <<8, 104, 116, 116, 112, 47, 49, 46, 49>>        \* b"\x08http/1.1"
ALPN_HTTP2 == <<2, 104, 50>>                                    \* b"\x02h2"
ALPN_ALL == <<2, 104, 50, 8, 104, 116, 116, 112, 47, 49, 46, 49>>
                                                                \* b"\x02h2\x08http/1.1"

\* SslConnector::builder(): nothing set, the engine's defaults apply
new_connector ==
    [ verify |-> None,
      alpn_protos |-> None,
      min_proto_version |-> None,
      max_proto_version |-> None,
      cert_compression_algs |-> {},
      verify_cert_store |-> None,
      permute_extensions |-> None ]

InitConnector ==
    /\ connector = Some(new_connector)
    /\ tls_result = "Ok"
    /\ tls_last = [op |-> "builder", arg |-> None]
    /\ tls_calls = <<>>
    /\ tls_steps = 0

\* an engine call and the engine's answer to it
EngineCall(fn, arg, accepted) == [fn |-> fn, arg |-> arg, accepted |-> accepted]

\* a handler that takes only a negative return for a failure
sv_handler_negative(r) == IF r < 0 THEN "Err" ELSE "Ok"

\* fn sv_handler(r: c_int) -> Result<c_int, ErrorStack>
sv_handler(r) == IF r = 0 THEN "Err" ELSE "Ok"

\* a step returns: result Ok with the builder, or Err without it
Return(op, arg, calls, result, out) ==
    /\ connector # None
    /\ tls_steps < MaxSteps
    /\ tls_steps' = tls_steps + 1
    /\ tls_last' = [op |-> op, arg |-> arg]
    /\ tls_calls' = calls
    /\ tls_result' = result
    /\ connector' = IF result = "Ok" THEN Some(out) ELSE None
    /\ UNCHANGED notConnector

self == Unwrap(connector)

\* TlsExtension::configure_cert_verification (set_verify cannot fail)
configure_cert_verification(certs_verification) ==
    LET mode == IF ~certs_verification THEN "NONE" ELSE "PEER"
    IN  Return("configure_cert_verification", Some(certs_verification),
               <<EngineCall("set_verify", mode, TRUE)>>,
               "Ok", [self EXCEPT !.verify = Some(mode)])

\* configure_alpn_protos offering http/1.1 ahead of h2 for All
configure_alpn_protos_http1_first(http_version, accepted) ==
    LET protos == CASE http_version = "Http1" -> ALPN_HTTP1
                    [] http_version = "Http2" -> ALPN_HTTP2
                    [] http_version = "All" -> ALPN_HTTP1 \o ALPN_HTTP2
    IN  Return("configure_alpn_protos", Some(http_version),
               <<EngineCall("set_alpn_protos", protos, accepted)>>,
               IF accepted THEN "Ok" ELSE "Err",
               [self EXCEPT !.alpn_protos = Some(protos)])

\* TlsExtension::configure_alpn_protos
configure_alpn_protos(http_version, accepted) ==
    LET protos == CASE http_version = "Http1" -> ALPN_HTTP1
                    [] http_version = "Http2" -> ALPN_HTTP2
                    [] http_version = "All" -> ALPN_ALL
    IN  Return("configure_alpn_protos", Some(http_version),
               <<EngineCall("set_alpn_protos", protos, accepted)>>,
               IF accepted THEN "Ok" ELSE "Err",
               [self EXCEPT !.alpn_protos = Some(protos)])

\* the match on version.0 of configure_min_tls_version / configure_max_tls_version
ssl_version(v) ==
    CASE v = "Tls1_0" -> "TLS1"
      [] v = "Tls1_1" -> "TLS1_1"
      [] v = "Tls1_2" -> "TLS1_2"
      [] v = "Tls1_3" -> "TLS1_3"

\* TlsExtension::configure_min_tls_version
configure_min_tls_version(min_tls_version, accepted) ==
    IF min_tls_version # None
    THEN LET v == ssl_version(Unwrap(min_tls_version))
         IN  Return("configure_min_tls_version", min_tls_version,
                    <<EngineCall("set_min_proto_version", v, accepted)>>,
                    IF accepted THEN "Ok" ELSE "Err",
                    [self EXCEPT !.min_proto_version = Some(v)])
    ELSE Return("configure_min_tls_version", None, <<>>, "Ok", self)

\* configure_max_tls_version calling the setter of the lower bound
configure_max_tls_version_sets_min(max_tls_version, accepted) ==
    IF max_tls_version # None
    THEN LET v == ssl_version(Unwrap(max_tls_version))
         IN  Return("configure_max_tls_version", max_tls_version,
                    <<EngineCall("set_min_proto_version", v, accepted)>>,
                    IF accepted THEN "Ok" ELSE "Err",
                    [self EXCEPT !.min_proto_version = Some(v)])
    ELSE Return("configure_max_tls_version", None, <<>>, "Ok", self)

\* TlsExtension::configure_max_tls_version
configure_max_tls_version(max_tls_version, accepted) ==
    IF max_tls_version # None
    THEN LET v == ssl_version(Unwrap(max_tls_version))
         IN  Return("configure_max_tls_version", max_tls_version,
                    <<EngineCall("set_max_proto_version", v, accepted)>>,
                    IF accepted THEN "Ok" ELSE "Err",
                    [self EXCEPT !.max_proto_version = Some(v)])
    ELSE Return("configure_max_tls_version", None, <<>>, "Ok", self)

\* TlsExtension::configure_add_cert_compression_alg; r is what
\* SSL_CTX_add_cert_compression_alg returns (1 on success, 0 on failure)
configure_add_cert_compression_alg(cert_compression_alg, r) ==
    Return("configure_add_cert_compression_alg", Some(cert_compression_alg),
           <<EngineCall("SSL_CTX_add_cert_compression_alg", cert_compression_alg, r = 1)>>,
           sv_handler(r),
           [self EXCEPT !.cert_compression_algs = @ \cup {cert_compression_alg}])

\* TlsExtension::configure_ca_cert_store
configure_ca_cert_store(ca_cert_stroe, accepted) ==
    IF ca_cert_stroe # None
    THEN Return("configure_ca_cert_store", ca_cert_stroe,
                <<EngineCall("set_verify_cert_store", Unwrap(ca_cert_stroe), accepted)>>,
                IF accepted THEN "Ok" ELSE "Err",
                [self EXCEPT !.verify_cert_store = ca_cert_stroe])
    ELSE Return("configure_ca_cert_store", None, <<>>, "Ok", self)

\* TlsExtension::configure_permute_extensions (set_permute_extensions cannot fail)
configure_permute_extensions(enable, permute_extensions) ==
    IF ~enable
    THEN Return("configure_permute_extensions", <<enable, permute_extensions>>,
                <<>>, "Ok", self)
    ELSE Return("configure_permute_extensions", <<enable, permute_extensions>>,
                <<EngineCall("set_permute_extensions", permute_extensions, TRUE)>>,
                "Ok", [self EXCEPT !.permute_extensions = Some(permute_extensions)])

NextConnector ==
    \/ \E b \in BOOLEAN : configure_cert_verification(b)
    \/ \E p \in HttpVersionPref, ok \in BOOLEAN : configure_alpn_protos(p, ok)
    \/ \E v \in Options(InnerVersion), ok \in BOOLEAN : configure_min_tls_version(v, ok)
    \/ \E v \in Options(InnerVersion), ok \in BOOLEAN : configure_max_tls_version(v, ok)
    \/ \E a \in CertCompressionAlgorithm, r \in {0, 1} :
          configure_add_cert_compression_alg(a, r)
    \/ \E st \in Options(X509Stores), ok \in BOOLEAN : configure_ca_cert_store(st, ok)
    \/ \E e \in BOOLEAN, p \in BOOLEAN : configure_permute_extensions(e, p)

(***************************************************************************)
(* Native trust-store loading: TlsExtension::configure_set_verify_cert_store *)
(* run by NCallers concurrent callers, each on a connector builder of its  *)
(* own.  LOAD_CERTS is a function-local static LazyLock: the first caller  *)
(* to dereference it runs load_native_certs() while the others wait, and   *)
(* every later dereference reads the stored value.                         *)
(*                                                                         *)
(* A bundle is the sequence of DER blobs the OS store yields; a blob is    *)
(* TRUE when X509::from_der accepts it.  What the OS yields may differ     *)
(* from one load to the next.                                              *)
(***************************************************************************)
Callers == 1..NCallers
Bundles == SeqsUpTo(BOOLEAN, MaxCerts)

\* X509::from_der(cert)
from_der(cert) == IF cert THEN "Ok" ELSE "Err"

new_caller ==
    [ pc |-> "new_store",
      certs |-> None,           \* LOAD_CERTS.certs as this caller sees it
      via |-> "none",           \* "init": ran the load; "cached": read the cache
      i |-> 0,                  \* certificates iterated so far
      valid_count |-> 0,
      invalid_count |-> 0,
      verify_store |-> None,    \* the X509StoreBuilder
      applied |-> None,         \* the store set on this caller's connector
      result |-> "Pending",     \* "Ok" | "Err" once the step has returned
      err |-> "none" ]          \* the engine call that was rejected

InitNative ==
    /\ LOAD_CERTS = [state |-> "uninit", value |-> None]
    /\ loads = 0
    /\ caller = [t \in Callers |-> new_caller]

\* the `?` on a rejected engine call: return Err, dropping builder and store
Fail(t, fn) ==
    caller' = [caller EXCEPT ![t].pc = "done", ![t].result = "Err", ![t].err = fn,
                             ![t].verify_store = None]

\* let mut verify_store = X509StoreBuilder::new()?;
new_store(t, accepted) ==
    /\ caller[t].pc = "new_store"
    /\ IF accepted
       THEN caller' = [caller EXCEPT
                ![t].pc = "deref",
                ![t].verify_store = Some([certs |-> <<>>, default_paths |-> FALSE])]
       ELSE Fail(t, "X509StoreBuilder::new")
    /\ UNCHANGED <<LOAD_CERTS, loads, notNative>>

\* LazyLock::force on an uninitialised cell where the initialiser is already
\* running is taken for a free cell as well (check-then-act)
lazy_init_begin_unguarded(t) ==
    /\ caller[t].pc = "deref"
    /\ LOAD_CERTS.state \in {"uninit", "running"}
    /\ LOAD_CERTS' = [LOAD_CERTS EXCEPT !.state = "running"]
    /\ caller' = [caller EXCEPT ![t].pc = "loading"]
    /\ UNCHANGED <<loads, notNative>>

\* LazyLock::force, first caller: claims the cell and starts the initialiser
lazy_init_begin(t) ==
    /\ caller[t].pc = "deref"
    /\ LOAD_CERTS.state = "uninit"
    /\ LOAD_CERTS' = [LOAD_CERTS EXCEPT !.state = "running"]
    /\ caller' = [caller EXCEPT ![t].pc = "loading"]
    /\ UNCHANGED <<loads, notNative>>

\* the initialiser rustls_native_certs::load_native_certs() returns
lazy_init_finish(t, bundle) ==
    /\ caller[t].pc = "loading"
    /\ loads' = loads + 1
    /\ LOAD_CERTS' = [state |-> "ready", value |-> Some(bundle)]
    /\ caller' = [caller EXCEPT ![t].pc = "loop", ![t].certs = Some(bundle),
                                ![t].via = "init"]
    /\ UNCHANGED notNative

\* LazyLock::force on an initialised cell (a caller that finds the
\* initialiser running waits until the cell is ready)
lazy_get(t) ==
    /\ caller[t].pc = "deref"
    /\ LOAD_CERTS.state = "ready"
    /\ caller' = [caller EXCEPT ![t].pc = "loop", ![t].certs = LOAD_CERTS.value,
                                ![t].via = "cached"]
    /\ UNCHANGED <<LOAD_CERTS, loads, notNative>>

\* one iteration of `for cert in LOAD_CERTS.certs.iter()`
loop(t, accepted) ==
    /\ caller[t].pc = "loop"
    /\ caller[t].i < Len(Unwrap(caller[t].certs))
    /\ LET n == caller[t].i + 1
           cert == Unwrap(caller[t].certs)[n]
       IN  IF from_der(cert) = "Ok"
           THEN IF accepted
                THEN caller' = [caller EXCEPT
                        ![t].i = n,
                        ![t].verify_store =
                            Some([Unwrap(@) EXCEPT !.certs = Append(@, n)]),
                        ![t].valid_count = @ + 1]
                ELSE Fail(t, "add_cert")
           ELSE caller' = [caller EXCEPT ![t].i = n, ![t].invalid_count = @ + 1]
    /\ UNCHANGED <<LOAD_CERTS, loads, notNative>>

\* a fallback taken whenever some certificate failed to parse
needs_default_paths_any_invalid(valid_count, invalid_count) == invalid_count > 0

\* if valid_count == 0 && invalid_count > 0
needs_default_paths(valid_count, invalid_count) ==
    valid_count = 0 /\ invalid_count > 0

\* after the loop: verify_store.set_default_paths()? when the bundle is corrupt
after_loop(t, accepted) ==
    /\ caller[t].pc = "loop"
    /\ caller[t].i = Len(Unwrap(caller[t].certs))
    /\ IF needs_default_paths(caller[t].valid_count, caller[t].invalid_count)
       THEN IF accepted
            THEN caller' = [caller EXCEPT
                    ![t].pc = "apply",
                    ![t].verify_store = Some([Unwrap(@) EXCEPT !.default_paths = TRUE])]
            ELSE Fail(t, "set_default_paths")
       ELSE caller' = [caller EXCEPT ![t].pc = "apply"]
    /\ UNCHANGED <<LOAD_CERTS, loads, notNative>>

\* self.set_verify_cert_store(verify_store.build())?; Ok(self)
apply_store(t, accepted) ==
    /\ caller[t].pc = "apply"
    /\ IF accepted
       THEN caller' = [caller EXCEPT ![t].pc = "done", ![t].result = "Ok",
                                     ![t].applied = caller[t].verify_store,
                                     ![t].verify_store = None]
       ELSE Fail(t, "set_verify_cert_store")
    /\ UNCHANGED <<LOAD_CERTS, loads, notNative>>

NextNative ==
    \/ \E t \in Callers, ok \in BOOLEAN : new_store(t, ok)
    \/ \E t \in Callers : lazy_init_begin(t)
    \/ \E t \in Callers, b \in Bundles : lazy_init_finish(t, b)
    \/ \E t \in Callers : lazy_get(t)
    \/ \E t \in Callers, ok \in BOOLEAN : loop(t, ok)
    \/ \E t \in Callers, ok \in BOOLEAN : after_loop(t, ok)
    \/ \E t \in Callers, ok \in BOOLEAN : apply_store(t, ok)

(***************************************************************************)
(* Per-Connection Extension Configurator: impl TlsConnectExtension for     *)
(* ConnectConfiguration.  The steps borrow the configuration (&mut self):  *)
(* it stays with the caller whatever the step returns.                     *)
(***************************************************************************)
STR_HTTP11 == <<104, 116, 116, 112, 47, 49, 46, 49>>    \* "http/1.1"
STR_H2 == <<104, 50>>                                    \* "h2"

new_conf == [ech_grease |-> None, application_settings |-> <<>>]

InitConnect ==
    /\ conf = new_conf
    /\ conf_result = "Ok"
    /\ conf_last = [op |-> "configure", enable |-> FALSE, arg |-> None]
    /\ conf_calls = <<>>
    /\ conf_steps = 0

ConnectReturn(op, enable, arg, calls, result, out) ==
    /\ conf_steps < MaxConnectSteps
    /\ conf_steps' = conf_steps + 1
    /\ conf_last' = [op |-> op, enable |-> enable, arg |-> arg]
    /\ conf_calls' = calls
    /\ conf_result' = result
    /\ conf' = out
    /\ UNCHANGED notConnect

\* TlsConnectExtension::configure_enable_ech_grease
configure_enable_ech_grease(enable, enable_ech_grease) ==
    IF ~enable
    THEN ConnectReturn("configure_enable_ech_grease", enable, Some(enable_ech_grease),
                       <<>>, "Ok", conf)
    ELSE ConnectReturn("configure_enable_ech_grease", enable, Some(enable_ech_grease),
                       <<EngineCall("SSL_set_enable_ech_grease", enable_ech_grease, TRUE)>>,
                       "Ok", [conf EXCEPT !.ech_grease = Some(enable_ech_grease)])

\* every preference registers "http/1.1"
application_settings_alpn_http1(http_version) == <<STR_HTTP11, 8>>

\* let (alpn, alpn_len) = match http_version { ... }
application_settings_alpn(http_version) ==
    CASE http_version = "Http1" -> <<STR_HTTP11, 8>>
      [] http_version \in {"Http2", "All"} -> <<STR_H2, 2>>

\* TlsConnectExtension::configure_add_application_settings; the engine reads
\* alpn_len bytes at alpn and zero bytes of settings at the null pointer; r is
\* what SSL_add_application_settings returns (1 on success, 0 on failure)
configure_add_application_settings(enable, http_version, r) ==
    IF ~enable
    THEN ConnectReturn("configure_add_application_settings", enable, Some(http_version),
                       <<>>, "Ok", conf)
    ELSE LET alpn == application_settings_alpn(http_version)[1]
             alpn_len == application_settings_alpn(http_version)[2]
             entry == [proto |-> SubSeq(alpn, 1, alpn_len), settings |-> <<>>]
         IN  ConnectReturn("configure_add_application_settings", enable,
                           Some(http_version),
                           <<EngineCall("SSL_add_application_settings", entry, r = 1)>>,
                           sv_handler(r),
                           IF r = 1
                           THEN [conf EXCEPT !.application_settings = Append(@, entry)]
                           ELSE conf)

NextConnect ==
    \/ \E e \in BOOLEAN, g \in BOOLEAN : configure_enable_ech_grease(e, g)
    \/ \E e \in BOOLEAN, p \in HttpVersionPref, r \in {0, 1} :
          configure_add_application_settings(e, p, r)

(***************************************************************************)
(* Specifications: one per component, the other components at rest.        *)
(***************************************************************************)
Init ==
    /\ InitRequest
    /\ InitConnector
    /\ InitNative
    /\ InitConnect

SpecRequest == Init /\ [][NextRequest]_vars
SpecConnector == Init /\ [][NextConnector]_vars
SpecNative == Init /\ [][NextNative]_vars
SpecConnect == Init /\ [][NextConnect]_vars


(***************************************************************************)
(* Properties of the Header/Request Assembler.                             *)
(***************************************************************************)
Built == phase # "building"
Finalized == Unwrap(req).request.headers
BuiltBody == Unwrap(req).request.body

\* the values a header map holds for a name (empty when absent)
RECURSIVE ValuesOf(_, _)
ValuesOf(h, n) ==
    IF h = <<>> THEN <<>>
    ELSE IF Head(h).name = n THEN Head(h).values \o ValuesOf(Tail(h), n)
         ELSE ValuesOf(Tail(h), n)

\* the decimal text of the body lengths of the model
LengthText(n) == CASE n = 10 -> "10" [] n = 7 -> "7" [] n = 0 -> "0"

ContentLengthRule ==
    LET given == rb.headers
        len == exact(BuiltBody)
    IN  /\ (len # None /\ ~contains_key(given, CONTENT_LENGTH))
              => ValuesOf(Finalized, CONTENT_LENGTH) = <<LengthText(Unwrap(len))>>
        /\ contains_key(given, CONTENT_LENGTH)
              => ValuesOf(Finalized, CONTENT_LENGTH) = ValuesOf(given, CONTENT_LENGTH)
        /\ (len = None /\ ~contains_key(given, CONTENT_LENGTH))
              => ~contains_key(Finalized, CONTENT_LENGTH)

\* C2 as stated: every built request with a body of known exact length N and
\* no content-length set carries content-length N; a value set by the caller
\* is preserved; a body without an exact size gets no content-length.
C2_Original == Built => ContentLengthRule

\* C2 amended: the same, for requests built with a header-order list; without
\* a header-order list body() injects no content-length header.
C2_ContentLength ==
    Built =>
        /\ rb.headers_order # None => ContentLengthRule
        /\ rb.headers_order = None => Finalized = rb.headers

C2_Witness ==
    /\ Built
    /\ rb.headers_order # None
    /\ exact(BuiltBody) = Some(10)
    /\ ~contains_key(rb.headers, CONTENT_LENGTH)
    /\ rb.headers # <<>>
    /\ ValuesOf(Finalized, CONTENT_LENGTH) = <<"10">>

\* number of occurrences of x in the sequence s
Count(s, x) == Cardinality({i \in DOMAIN s : s[i] = x})

\* the subsequence of the (name, value) pairs whose name is not in L
RECURSIVE Unlisted(_, _)
Unlisted(ps, L) ==
    IF ps = <<>> THEN <<>>
    ELSE IF Head(ps)[1] \in Range(L) THEN Unlisted(Tail(ps), L)
         ELSE <<Head(ps)>> \o Unlisted(Tail(ps), L)

PositionIn(L, n) == CHOOSE i \in DOMAIN L : L[i] = n

\* the header map that enters the ordering step: the caller's map with the
\* content-length header body() has injected
Ordered(L, H, out) ==
    LET hs == Flatten(H)
        os == Flatten(out)
    IN  /\ \A i, j \in DOMAIN os :
              i < j =>
                /\ (os[j][1] \in Range(L)) => (os[i][1] \in Range(L))
                /\ (os[i][1] \in Range(L) /\ os[j][1] \in Range(L))
                      => PositionIn(L, os[i][1]) <= PositionIn(L, os[j][1])
        /\ Unlisted(os, L) = Unlisted(hs, L)
        /\ Len(os) = Len(hs)
        /\ \A p \in Range(hs) \cup Range(os) : Count(os, p) = Count(hs, p)

ScenarioHeaders ==
    << [name |-> "accept", values |-> <<"*/*">>],
       [name |-> "x-custom", values |-> <<"1">>],
       [name |-> "host", values |-> <<"example.com">>] >>
ScenarioOrder == <<"host", "user-agent", "accept">>

Scenario ==
    /\ Built
    /\ rb.headers = ScenarioHeaders
    /\ rb.headers_order = Some(ScenarioOrder)
    /\ exact(BuiltBody) = Some(10)

\* the entries of a header map other than content-length
WithoutContentLength(h) == Select(h, CONTENT_LENGTH, FALSE)

\* C4: header order [host, user-agent, accept], caller headers accept: */*,
\* x-custom: 1, host: example.com, a body of exactly 10 bytes: the finalized
\* headers are host, accept, x-custom in this order, user-agent is absent and
\* content-length is 10.
C4_Scenario ==
    Scenario =>
        /\ Flatten(WithoutContentLength(Finalized))
              = << <<"host", "example.com">>, <<"accept", "*/*">>, <<"x-custom", "1">> >>
        /\ ~contains_key(Finalized, "user-agent")
        /\ ValuesOf(Finalized, CONTENT_LENGTH) = <<"10">>

C4_Witness == Scenario /\ Len(Finalized) = 4

\* C9: once body() has built the request its header sequence (content-length
\* included) never changes again, pieces() hands out exactly that sequence,
\* the request is never built a second time, and a call that changes the
\* network scheme leaves the header map and the header order untouched.
C9_FinalizedOnce ==
    [][ /\ Built =>
            /\ phase' # "building"
            /\ req' = req
            /\ parts' # None => Unwrap(parts')[1].headers = Finalized
        /\ (~Built /\ rb'.network_scheme # rb.network_scheme) =>
            /\ rb'.headers = rb.headers
            /\ rb'.headers_order = rb.headers_order
            /\ req' = None
      ]_vars

C9_Witness ==
    /\ phase = "taken"
    /\ Unwrap(parts)[2] = "proxy"
    /\ rb.headers_order # None
    /\ Unwrap(parts)[1].headers # rb.headers
    /\ ValuesOf(Unwrap(parts)[1].headers, CONTENT_LENGTH) = <<"7">>

(***************************************************************************)
(* Properties of the TLS Connector Configurator.                           *)
(***************************************************************************)
\* the ASCII bytes of the protocol identifiers
IdHttp11 == <<104, 116, 116, 112, 47, 49, 46, 49>>
IdH2 == <<104, 50>>

\* the protocol identifiers a preference offers, most preferred first
Offered(pref) ==
    CASE pref = "Http1" -> <<IdHttp11>>
      [] pref = "Http2" -> <<IdH2>>
      [] pref = "All" -> <<IdH2, IdHttp11>>

\* ALPN wire format: each identifier behind one byte holding its length
RECURSIVE WireFormat(_)
WireFormat(ids) ==
    IF ids = <<>> THEN <<>>
    ELSE <<Len(Head(ids))>> \o Head(ids) \o WireFormat(Tail(ids))

\* C1: configure_alpn_protos writes exactly the length-prefixed list of its
\* preference: Http1 -> 0x08 "http/1.1", Http2 -> 0x02 "h2", All -> 0x02 "h2"
\* 0x08 "http/1.1" (h2 first); no other byte string is ever written as ALPN.
C1_AlpnBytes ==
    /\ tls_last.op = "configure_alpn_protos" =>
          /\ Len(tls_calls) = 1
          /\ tls_calls[1].fn = "set_alpn_protos"
          /\ tls_calls[1].arg = WireFormat(Offered(Unwrap(tls_last.arg)))
          /\ tls_result = "Ok" =>
                Unwrap(connector).alpn_protos = Some(tls_calls[1].arg)
    /\ \A k \in DOMAIN tls_calls :
          tls_calls[k].fn = "set_alpn_protos" =>
              /\ tls_last.op = "configure_alpn_protos"
              /\ tls_calls[k].arg \in
                    { <<8>> \o IdHttp11, <<2>> \o IdH2, <<2>> \o IdH2 \o <<8>> \o IdHttp11 }
    /\ connector # None =>
          Unwrap(connector).alpn_protos \in
              { None, Some(<<8>> \o IdHttp11), Some(<<2>> \o IdH2),
                Some(<<2>> \o IdH2 \o <<8>> \o IdHttp11) }

C1_Witness ==
    /\ tls_last = [op |-> "configure_alpn_protos", arg |-> Some("All")]
    /\ tls_result = "Ok"
    /\ SubSeq(Unwrap(connector).alpn_protos[1], 1, 3) = <<2, 104, 50>>
    /\ Len(Unwrap(connector).alpn_protos[1]) = 12

\* the engine version of each of the four levels
EngineVersion(level) ==
    CASE level = "Tls1_0" -> "TLS1"
      [] level = "Tls1_1" -> "TLS1_1"
      [] level = "Tls1_2" -> "TLS1_2"
      [] level = "Tls1_3" -> "TLS1_3"

VersionStep(op, setter, field, other) ==
    (tls_steps' = tls_steps + 1 /\ tls_last'.op = op) =>
        IF tls_last'.arg = None
        THEN /\ tls_calls' = <<>>
             /\ tls_result' = "Ok"
             /\ connector' = connector
        ELSE /\ Len(tls_calls') = 1
             /\ tls_calls'[1].fn = setter
             /\ tls_calls'[1].arg = EngineVersion(Unwrap(tls_last'.arg))
             /\ tls_result' = "Ok" =>
                   /\ Unwrap(connector')[field] = Some(EngineVersion(Unwrap(tls_last'.arg)))
                   /\ Unwrap(connector')[other] = Unwrap(connector)[other]

\* C7: with the bound absent configure_min_tls_version (configure_max_tls_version)
\* makes no engine call and returns the builder unchanged; with the bound
\* present it sets the engine version of the given level, on that side only.
C7_VersionBounds ==
    [][ /\ VersionStep("configure_min_tls_version", "set_min_proto_version",
                       "min_proto_version", "max_proto_version")
        /\ VersionStep("configure_max_tls_version", "set_max_proto_version",
                       "max_proto_version", "min_proto_version")
      ]_vars

C7_Witness ==
    /\ tls_last = [op |-> "configure_max_tls_version", arg |-> None]
    /\ tls_steps = 3
    /\ tls_result = "Ok"
    /\ Unwrap(connector).min_proto_version = Some("TLS1_2")
    /\ Unwrap(connector).max_proto_version = None

Rejected(calls) == \E k \in DOMAIN calls : ~calls[k].accepted

\* C8: a connector step whose engine call is rejected returns Err and no
\* builder, a step returns Err only then, and no step runs once the builder is
\* gone: a chain of steps ends at its first failure.
C8_FailFast ==
    [][ /\ connector # None
        /\ Rejected(tls_calls') <=> tls_result' = "Err"
        /\ tls_result' = "Err" <=> connector' = None
      ]_vars

C8_Witness ==
    /\ tls_last.op = "configure_add_cert_compression_alg"
    /\ tls_steps = 3
    /\ tls_result = "Err"
    /\ connector = None
    /\ Rejected(tls_calls)

(***************************************************************************)
(* Properties of native trust-store loading.                               *)
(***************************************************************************)
\* C5: under every interleaving of the callers load_native_certs runs at most
\* once, exactly once as soon as the cell is ready or a caller holds the
\* certificates, and every caller holds the one cached result.
C5_SingleLoad ==
    /\ loads <= 1
    /\ LOAD_CERTS.state = "ready" <=> loads = 1
    /\ \A t \in Callers :
          caller[t].certs # None =>
              /\ loads = 1
              /\ caller[t].certs = LOAD_CERTS.value
    /\ \A t, u \in Callers :
          (caller[t].certs # None /\ caller[u].certs # None) =>
              caller[t].certs = caller[u].certs

C5_Witness ==
    /\ loads = 1
    /\ caller[1].via = "cached"
    /\ caller[2].via = "init"
    /\ caller[1].result = "Ok"
    /\ caller[2].result = "Ok"
    /\ Len(Unwrap(caller[1].certs)) = 2

\* the indices among the first n certificates of b that parse (or do not)
RECURSIVE Parsing(_, _, _)
Parsing(b, n, ok) ==
    IF n = 0 THEN <<>>
    ELSE IF b[n] = ok THEN Append(Parsing(b, n - 1, ok), n)
         ELSE Parsing(b, n - 1, ok)

NativeEngineCalls ==
    {"X509StoreBuilder::new", "add_cert", "set_default_paths", "set_verify_cert_store"}

\* C6: a certificate that fails to parse is counted and skipped, never the
\* reason the step returns Err; after the loop the default trust paths are set
\* exactly when no certificate parsed and at least one failed; the applied
\* store holds every certificate that parsed, and is never empty for a
\* non-empty bundle.
C6_ParseFallback ==
    \A t \in Callers :
        LET c == caller[t]
        IN  /\ c.result = "Err" => c.err \in NativeEngineCalls
            /\ c.certs # None =>
                  LET b == Unwrap(c.certs)
                      valid == Parsing(b, c.i, TRUE)
                      invalid == Parsing(b, c.i, FALSE)
                      fallback == valid = <<>> /\ invalid # <<>>
                  IN  /\ c.valid_count = Len(valid)
                      /\ c.invalid_count = Len(invalid)
                      /\ c.pc = "loop" =>
                            c.verify_store = Some([certs |-> valid, default_paths |-> FALSE])
                      /\ c.pc = "apply" =>
                            /\ c.i = Len(b)
                            /\ c.verify_store =
                                  Some([certs |-> valid, default_paths |-> fallback])
                      /\ c.result = "Ok" =>
                            /\ c.i = Len(b)
                            /\ c.applied = Some([certs |-> valid, default_paths |-> fallback])
                            /\ b # <<>> =>
                                  \/ Unwrap(c.applied).certs # <<>>
                                  \/ Unwrap(c.applied).default_paths

\* 0 valid / 3 invalid: the fallback is taken
C6_Witness ==
    /\ caller[1].result = "Ok"
    /\ caller[1].certs = Some(<<FALSE, FALSE, FALSE>>)
    /\ caller[1].invalid_count = 3
    /\ caller[1].valid_count = 0
    /\ caller[1].applied = Some([certs |-> <<>>, default_paths |-> TRUE])

(***************************************************************************)
(* Properties of the Per-Connection Extension Configurator.                *)
(***************************************************************************)
\* C10: configure_add_application_settings with the flag false makes no engine
\* call, changes nothing and returns Ok; with the flag true it registers "h2"
\* (2 bytes) for Http2 and All and "http/1.1" (8 bytes) for Http1, with empty
\* settings, and returns Err exactly when the engine rejects the registration.
C10_ApplicationSettings ==
    [][ (conf_steps' = conf_steps + 1
            /\ conf_last'.op = "configure_add_application_settings") =>
          IF ~conf_last'.enable
          THEN /\ conf_calls' = <<>>
               /\ conf_result' = "Ok"
               /\ conf' = conf
          ELSE LET pref == Unwrap(conf_last'.arg)
                   id == IF pref = "Http1" THEN IdHttp11 ELSE IdH2
                   n == IF pref = "Http1" THEN 8 ELSE 2
               IN  /\ Len(conf_calls') = 1
                   /\ conf_calls'[1].fn = "SSL_add_application_settings"
                   /\ conf_calls'[1].arg = [proto |-> id, settings |-> <<>>]
                   /\ Len(conf_calls'[1].arg.proto) = n
                   /\ conf_result' = "Err" <=> ~conf_calls'[1].accepted
                   /\ conf'.ech_grease = conf.ech_grease
                   /\ conf'.application_settings =
                         IF conf_calls'[1].accepted
                         THEN Append(conf.application_settings, conf_calls'[1].arg)
                         ELSE conf.application_settings
      ]_vars

C10_Witness ==
    /\ conf_last = [op |-> "configure_add_application_settings", enable |-> TRUE,
                    arg |-> Some("All")]
    /\ conf_result = "Ok"
    /\ conf.application_settings =
          << [proto |-> <<104, 116, 116, 112, 47, 49, 46, 49>>, settings |-> <<>>],
             [proto |-> <<104, 50>>, settings |-> <<>>] >>

\* the place of a name in a sequence of names (0 when absent)
IndexOf(ns, n) == IF \E i \in DOMAIN ns : ns[i] = n
                  THEN CHOOSE i \in DOMAIN ns : ns[i] = n
                  ELSE 0

\* C11: with no header-order list body() leaves the header map exactly as the
\* caller set it (no content-length even for a body of known exact length, no
\* reordering); the map differs from the caller's only when a list is present,
\* and then content-length is injected before the reordering: an injected
\* content-length named in the list stands at the list's place, ahead of every
\* header the list does not name.
C11_NoOrderNoChange ==
    Built =>
        /\ rb.headers_order = None =>
              /\ Finalized = rb.headers
              /\ contains_key(Finalized, CONTENT_LENGTH)
                    <=> contains_key(rb.headers, CONTENT_LENGTH)
        /\ Finalized # rb.headers => rb.headers_order # None
        /\ (/\ rb.headers_order # None
            /\ exact(BuiltBody) # None
            /\ ~contains_key(rb.headers, CONTENT_LENGTH)
            /\ CONTENT_LENGTH \in Range(Unwrap(rb.headers_order))) =>
              LET L == Unwrap(rb.headers_order)
                  ns == NamesOf(Finalized)
                  at == IndexOf(ns, CONTENT_LENGTH)
              IN  /\ at > 0
                  /\ \A k \in DOMAIN ns :
                        /\ ns[k] \notin Range(L) => at < k
                        /\ (ns[k] \in Range(L)
                              /\ IndexOf(L, ns[k]) < IndexOf(L, CONTENT_LENGTH)) => k < at
                        /\ (ns[k] \in Range(L)
                              /\ IndexOf(L, ns[k]) > IndexOf(L, CONTENT_LENGTH)) => at < k

\* no list, a body of exactly 10 bytes, headers out of any canonical order
C11_Witness ==
    /\ Built
    /\ rb.headers_order = None
    /\ exact(BuiltBody) = Some(10)
    /\ NamesOf(rb.headers) = <<"x-custom", "accept", "host">>
    /\ Finalized = rb.headers
    /\ ~contains_key(Finalized, CONTENT_LENGTH)

====
